---- MODULE Spec2Model ----
(***************************************************************************)
(* Attendance hub: the attendance table with its row-level policies, and   *)
(* the Attendance page (fetchTodayAttendance, handleCheckIn,               *)
(* handleCheckOut) driven from several browser sessions.                   *)
(***************************************************************************)
EXTENDS Integers, FiniteSets, Sequences, TLC

\* ------------------------------------------------------------------ bounds
\* Check In is clicked only while the table holds fewer rows than this
MaxRows == 2

\* --------------------------------------------------------- program constants
HoursPerDay == 24
LateCutoffHour == 9

\* the clock starts one hour before the cutoff on day 0; it is read then, at
\* the cutoff, and at the starting hour of day 1
StartNow == LateCutoffHour - 1
ClockReadings == {StartNow, LateCutoffHour, StartNow + HoursPerDay}

\* useAuth(): the user signed in in each browser session.  Sessions 1 and 2
\* are two tabs of user 1, session 3 is user 2.
SessionUsers == <<1, 1, 2>>
Sessions == DOMAIN SessionUsers
SessionUser(s) == SessionUsers[s]
Users == {SessionUser(s) : s \in Sessions}

\* app_role and attendance_status enums
AppRoles == {"admin", "user"}
AttendanceStatus == {"present", "absent", "late", "half_day", "leave"}

\* SQL NULL for a TIMESTAMPTZ column and for a TEXT column
NoTime == -1
NullText == "NULL"

\* what the user may type in the notes textarea
NoteTexts == {"wfh"}

VARIABLES
    now,              \* wall clock, in hours since local midnight of day 0
    attendance,       \* rows of public.attendance
    nextId,           \* stands for gen_random_uuid(): next fresh row id
    user_roles,       \* rows of public.user_roles, as <<user_id, role>>
    profiles,         \* rows of public.profiles, user_id -> department
    todayAttendance,  \* per session: React state, {} (null) or {row}
    isLoading,        \* per session: React state
    isSubmitting,     \* per session: React state
    notes,            \* per session: React state
    pc,               \* per session: "idle" or the handler awaiting the store
    req,              \* per session: the locals captured by the running handler
    toast,            \* the toast on screen (gone at the next event)
    api,              \* the last direct store call and its outcome
    rolesPage,        \* per session: the AdminUsers page (userRoles, handler position)
    gw,               \* one invocation of the attendance-ai function
    chat,             \* the AIAssistant page: sendMessage and its stream loop
    view              \* the figures of the Attendance, Reports and Dashboard pages

vars == <<now, attendance, nextId, user_roles, profiles, todayAttendance,
          isLoading, isSubmitting, notes, pc, req, toast, api, rolesPage, gw, chat,
          view>>

storeVars == <<attendance, nextId, user_roles, profiles>>
pageVars == <<todayAttendance, isLoading, isSubmitting, notes, pc, req, toast>>
\* the state of the other pages and of the edge function
extVars == <<rolesPage, gw, chat, view>>

\* ------------------------------------------------------------- time helpers
\* now.getHours()
getHours(t) == t % HoursPerDay
\* format(now, "yyyy-MM-dd"): the calendar day
formatDate(t) == t \div HoursPerDay

\* const status = hour >= 9 ? "late" : "present"
StatusFor_strict(hour) == IF hour > LateCutoffHour THEN "late" ELSE "present"
StatusFor(hour) == IF hour >= LateCutoffHour THEN "late" ELSE "present"

\* notes || null   and   data.notes || ""
NotesOrNull(n) == IF n = "" THEN NullText ELSE n
NotesOrEmpty(n) == IF n = NullText THEN "" ELSE n

\* ------------------------------------------------------- row-level security
has_role(_user_id, _role) == <<_user_id, _role>> \in user_roles

\* SELECT: "Users can view their own attendance", "Admins can view all
\* attendance", "Admins can manage all attendance" (permissive: OR-ed)
AttendanceSelectUsing(uid, row) ==
    uid = row.user_id \/ has_role(uid, "admin")

\* INSERT: "Users can mark their own attendance" WITH CHECK, or the admin
\* FOR ALL policy, whose WITH CHECK defaults to its USING
AttendanceInsertCheck(uid, row) ==
    uid = row.user_id \/ has_role(uid, "admin")

\* UPDATE: "Users can update their own attendance" USING, or the admin FOR ALL
\* policy; the same expression is the WITH CHECK of the new row
AttendanceUpdateUsing_open(uid, row) == TRUE
AttendanceUpdateUsing(uid, row) ==
    uid = row.user_id \/ has_role(uid, "admin")

\* DELETE: only the admin FOR ALL policy
AttendanceDeleteUsing(uid, row) == has_role(uid, "admin")

\* profiles: SELECT own or admin; UPDATE own only; INSERT own only
ProfileSelectUsing(uid, owner) == uid = owner \/ has_role(uid, "admin")
ProfileUpdateUsing_admin(uid, owner) == uid = owner \/ has_role(uid, "admin")
ProfileUpdateUsing(uid, owner) == uid = owner

\* UNIQUE (user_id, date)
UniqueViolation_off(table, row) == FALSE
UniqueViolation_checkIn(table, row) ==
    \E r \in table : r.user_id = row.user_id /\ r.check_in = row.check_in /\ r.id # row.id
UniqueViolation(table, row) ==
    \E r \in table : r.user_id = row.user_id /\ r.date = row.date /\ r.id # row.id


\* ------------------------------------------------------------- store calls
\* rows of `table` the caller may see (SELECT policies)
VisibleAttendance(uid, table) == {r \in table : AttendanceSelectUsing(uid, r)}

\* .insert(row): the message of the error that rejects it, "" when accepted
DuplicateKey == "duplicate key value violates unique constraint"
InsertError(uid, table, row) ==
    IF ~AttendanceInsertCheck(uid, row) THEN "new row violates row-level security policy"
    ELSE IF UniqueViolation(table, row) THEN DuplicateKey
    ELSE ""

InsertAttendance(table, row) == table \cup {row}

\* .update({check_out, notes}): the new version of a row
CheckOutPatch_status(row, checkOutTime, n) ==
    [row EXCEPT !.check_out = checkOutTime, !.notes = n,
                !.status = StatusFor(getHours(checkOutTime))]
CheckOutPatch_toggle(row, checkOutTime, n) ==
    [row EXCEPT !.check_out = IF row.check_out = NoTime THEN checkOutTime ELSE NoTime,
                !.notes = n]
CheckOutPatch_date(row, checkOutTime, n) ==
    [row EXCEPT !.check_out = formatDate(checkOutTime) * HoursPerDay, !.notes = n]
CheckOutPatch(row, checkOutTime, n) ==
    [row EXCEPT !.check_out = checkOutTime, !.notes = n]

\* .update(...).eq("id", id): the rows the UPDATE touches for this caller
UpdateTargets(uid, table, id) ==
    {r \in table : r.id = id /\ AttendanceSelectUsing(uid, r)
                             /\ AttendanceUpdateUsing(uid, r)}

\* ------------------------------------------------------------------- state
IdleReq == [ts |-> NoTime, date |-> 0, status |-> "present", notes |-> NullText, id |-> 0]
NoToast == [session |-> 0, title |-> "", description |-> ""]
NoApi == [op |-> "none", table |-> "none", caller |-> 0, admin |-> FALSE,
          owner |-> 0, ok |-> FALSE, seen |-> {}]

\* the users whose admin role may have been granted outside the application
AdminSets == {{}, {2}}

\* the AdminUsers page before it is opened: userRoles is the empty map (a
\* user without an entry reads ""), no handleRoleChange is running
IdleRolesPage ==
    [open |-> FALSE, userRoles |-> [u \in Users |-> ""], pc |-> "idle",
     userId |-> 0, newRole |-> "", wasAdmin |-> FALSE, before |-> {}]

\* the response an invocation has not produced yet
NoResponse == [status |-> 0, error |-> "", contentType |-> "", body |-> "", cors |-> FALSE]

\* no invocation of the edge function is in progress: the request, the
\* environment, the locals of the handler, the calls it has made and its response
IdleGw ==
    [pc |-> "idle", method |-> "", hasAuth |-> FALSE, token |-> 0, body |-> "",
     envSet |-> FALSE, keySet |-> FALSE,
     user |-> 0, attendanceNull |-> TRUE, attendance |-> <<>>,
     profileNull |-> TRUE, department |-> "",
     attendanceContext |-> [text |-> "", lines |-> <<>>],
     userContext |-> [text |-> "", user |-> 0, department |-> ""],
     authCalls |-> 0, storeReads |-> <<>>, upstreamCalls |-> 0,
     upstreamStatus |-> 0, upstreamBody |-> "", responses |-> 0,
     response |-> NoResponse]

\* the AIAssistant page with no request running: isLoading, the requests
\* awaiting their end and the credential of the last one, the events and the
\* bytes of the response body, the reader's position and the decoder's held
\* bytes, the locals of sendMessage, and the content set on the last message
IdleChat ==
    [pc |-> "idle", isLoading |-> FALSE, inFlight |-> 0, bearer |-> 0,
     events |-> <<>>, bytes |-> <<>>, pos |-> 0, pending |-> <<>>,
     textBuffer |-> <<>>, streamDone |-> FALSE, assistantContent |-> <<>>,
     appends |-> <<>>, shown |-> <<>>]

\* the pages that only compute figures, before any of them has rendered: the
\* check_in and check_out of todayAttendance in milliseconds and the work
\* hours shown; the attendance state of the Reports page (monthData on the
\* Dashboard), the timezone of the browser, and the figures derived from it
IdleView ==
    [page |-> "none", check_in |-> NoTime, check_out |-> NoTime,
     hours |-> 0, minutes |-> 0, workHours |-> NullText,
     rows |-> <<>>, west |-> FALSE, attendance |-> <<>>,
     fetched |-> FALSE, rendered |-> FALSE,
     stats |-> [s \in AttendanceStatus |-> 0], totalDays |-> 0,
     attendanceRate |-> [type |-> "number", num |-> 0, den |-> 1, text |-> ""],
     weeklyData |-> <<>>, shownRate |-> ""]

\* handle_new_user(): every signed-up user has a profile and the role 'user'.
\* Every session has the Attendance page open with its first fetch running.
Init ==
    /\ now = StartNow
    /\ attendance = {}
    /\ nextId = 1
    /\ \E admins \in AdminSets :
           user_roles = {<<u, "user">> : u \in Users} \cup {<<u, "admin">> : u \in admins}
    /\ profiles = [u \in Users |-> ""]
    /\ todayAttendance = [s \in Sessions |-> {}]
    /\ isLoading = [s \in Sessions |-> TRUE]
    /\ isSubmitting = [s \in Sessions |-> FALSE]
    /\ notes = [s \in Sessions |-> ""]
    /\ pc = [s \in Sessions |-> "idle"]
    /\ req = [s \in Sessions |-> IdleReq]
    /\ toast = NoToast
    /\ api = NoApi
    /\ rolesPage = [s \in Sessions |-> IdleRolesPage]
    /\ gw = IdleGw
    /\ chat = IdleChat
    /\ view = IdleView

\* ------------------------------------------------------------------- clock
\* time passes, up to a later reading of the clock
Tick(t) ==
    /\ t > now
    /\ now' = t
    /\ toast' = NoToast
    /\ UNCHANGED <<storeVars, todayAttendance, isLoading, isSubmitting, notes, pc, req, api>>
    /\ UNCHANGED extVars

\* --------------------------------------------------------- Attendance page
\* .eq("date", today).maybeSingle(): the row when exactly one is visible,
\* nothing for none, an error (and no data) for several
MaybeSingle(rows) == IF Cardinality(rows) = 1 THEN rows ELSE {}

\* the select of fetchTodayAttendance as the caller uid sees it
TodayRows(uid, table, today) ==
    MaybeSingle({r \in VisibleAttendance(uid, table) : r.date = today})

\* the page is mounted (useState defaults) and the effect runs
\* fetchTodayAttendance to its end; a later firing is the page opened again
fetchTodayAttendance(s) ==
    /\ pc[s] = "idle"
    /\ LET data == TodayRows(SessionUser(s), attendance, formatDate(now))
       IN  /\ todayAttendance' = [todayAttendance EXCEPT ![s] = data]
           /\ notes' = [notes EXCEPT ![s] =
                           IF data # {} THEN NotesOrEmpty((CHOOSE r \in data : TRUE).notes)
                           ELSE ""]
    /\ \/ isLoading[s]
       \/ todayAttendance'[s] # todayAttendance[s]
    /\ isLoading' = [isLoading EXCEPT ![s] = FALSE]
    /\ toast' = NoToast
    /\ UNCHANGED <<now, storeVars, isSubmitting, pc, req, api>>
    /\ UNCHANGED extVars

\* the Check In button is rendered and enabled
CheckInEnabled(s) == ~isLoading[s] /\ todayAttendance[s] = {} /\ ~isSubmitting[s]
\* the Check Out button is rendered and enabled
CheckOutEnabled(s) ==
    /\ ~isLoading[s]
    /\ todayAttendance[s] # {}
    /\ \A r \in todayAttendance[s] : r.check_out = NoTime
    /\ ~isSubmitting[s]

\* Check In is clicked: handleCheckIn up to the await of the insert
handleCheckIn(s) ==
    /\ CheckInEnabled(s)
    /\ pc[s] = "idle"
    /\ Cardinality(attendance) < MaxRows
    /\ UNCHANGED notes
    /\ isSubmitting' = [isSubmitting EXCEPT ![s] = TRUE]
    /\ req' = [req EXCEPT ![s] =
                  [ts |-> now, date |-> formatDate(now),
                   status |-> StatusFor(getHours(now)), notes |-> NotesOrNull(notes[s]),
                   id |-> 0]]
    /\ pc' = [pc EXCEPT ![s] = "checkIn"]
    /\ toast' = NoToast
    /\ UNCHANGED <<now, storeVars, todayAttendance, isLoading, api>>
    /\ UNCHANGED extVars

\* the insert reaches the store and handleCheckIn resumes
handleCheckIn_await(s) ==
    /\ pc[s] = "checkIn"
    /\ LET uid == SessionUser(s)
           row == [id |-> nextId, user_id |-> uid, date |-> req[s].date,
                   check_in |-> req[s].ts, check_out |-> NoTime,
                   status |-> req[s].status, notes |-> req[s].notes]
           error == InsertError(uid, attendance, row)
       IN  IF error = ""
           THEN /\ attendance' = InsertAttendance(attendance, row)
                /\ nextId' = nextId + 1
                /\ todayAttendance' = [todayAttendance EXCEPT ![s] = {row}]
                /\ toast' = [session |-> s, title |-> "Check-in successful!",
                             description |-> ""]
           ELSE /\ UNCHANGED <<attendance, nextId, todayAttendance>>
                /\ toast' = [session |-> s, title |-> "Check-in failed",
                             description |-> error]
    /\ req' = [req EXCEPT ![s] = IdleReq]
    /\ isSubmitting' = [isSubmitting EXCEPT ![s] = FALSE]
    /\ pc' = [pc EXCEPT ![s] = "idle"]
    /\ UNCHANGED <<now, user_roles, profiles, isLoading, notes, api>>
    /\ UNCHANGED extVars

\* the notes textarea is set to n (setNotes) and Check Out is clicked:
\* handleCheckOut up to the await of the update
handleCheckOut(s, n) ==
    /\ CheckOutEnabled(s)
    /\ pc[s] = "idle"
    /\ notes' = [notes EXCEPT ![s] = n]
    /\ isSubmitting' = [isSubmitting EXCEPT ![s] = TRUE]
    /\ req' = [req EXCEPT ![s] =
                  [ts |-> now, date |-> formatDate(now), status |-> "present",
                   notes |-> NotesOrNull(n),
                   id |-> (CHOOSE r \in todayAttendance[s] : TRUE).id]]
    /\ pc' = [pc EXCEPT ![s] = "checkOut"]
    /\ toast' = NoToast
    /\ UNCHANGED <<now, storeVars, todayAttendance, isLoading, api>>
    /\ UNCHANGED extVars

\* the update reaches the store and handleCheckOut resumes
handleCheckOut_await(s) ==
    /\ pc[s] = "checkOut"
    /\ LET uid == SessionUser(s)
           targets == UpdateTargets(uid, attendance, req[s].id)
           updated == {CheckOutPatch(r, req[s].ts, req[s].notes) : r \in targets}
           allowed == \A r \in updated : AttendanceUpdateUsing(uid, r)
       IN  IF targets # {} /\ allowed
           THEN /\ attendance' = (attendance \ targets) \cup updated
                /\ todayAttendance' = [todayAttendance EXCEPT ![s] = updated]
                /\ toast' = [session |-> s, title |-> "Check-out successful!",
                             description |-> ""]
           ELSE /\ UNCHANGED <<attendance, todayAttendance>>
                /\ toast' = [session |-> s, title |-> "Check-out failed",
                             description |-> "JSON object requested, no rows returned"]
    /\ req' = [req EXCEPT ![s] = IdleReq]
    /\ isSubmitting' = [isSubmitting EXCEPT ![s] = FALSE]
    /\ pc' = [pc EXCEPT ![s] = "idle"]
    /\ UNCHANGED <<now, nextId, user_roles, profiles, isLoading, notes, api>>
    /\ UNCHANGED extVars

Next ==
    \/ \E t \in ClockReadings : Tick(t)
    \/ \E s \in Sessions : fetchTodayAttendance(s)
    \/ \E s \in Sessions : handleCheckIn(s)
    \/ \E s \in Sessions : handleCheckIn_await(s)
    \/ \E s \in Sessions, n \in NoteTexts : handleCheckOut(s, n)
    \/ \E s \in Sessions : handleCheckOut_await(s)

Spec == Init /\ [][Next]_vars

\* ------------------------------------------------------ direct store calls
\* Any signed-in user may call the store directly with the session's token;
\* only the row-level policies and the table constraints stand in the way.
ApiCall(op, table, caller, owner, ok, seen) ==
    [op |-> op, table |-> table, caller |-> caller, admin |-> has_role(caller, "admin"),
     owner |-> owner, ok |-> ok, seen |-> seen]

\* from("attendance").select("*")
ApiSelectAttendance(c) ==
    /\ api' = ApiCall("select", "attendance", c, c, TRUE, VisibleAttendance(c, attendance))
    /\ UNCHANGED <<now, storeVars, pageVars>>
    /\ UNCHANGED extVars

\* from("attendance").insert({user_id: u, date, check_in: t, status})
ApiInsertAttendance(c, u, t) ==
    /\ Cardinality(attendance) < MaxRows
    /\ nextId <= MaxRows + 1
    /\ LET row == [id |-> nextId, user_id |-> u, date |-> formatDate(t),
                   check_in |-> t, check_out |-> NoTime, status |-> "present",
                   notes |-> NullText]
           error == InsertError(c, attendance, row)
       IN  /\ api' = ApiCall("insert", "attendance", c, u, error = "", {})
           /\ IF error = ""
              THEN attendance' = InsertAttendance(attendance, row) /\ nextId' = nextId + 1
              ELSE UNCHANGED <<attendance, nextId>>
    /\ UNCHANGED <<now, user_roles, profiles, pageVars>>
    /\ UNCHANGED extVars

\* from("attendance").update({user_id: u, check_out: now}).eq("id", id)
ApiUpdateAttendance(c, id, u) ==
    /\ \E r \in attendance : r.id = id
    /\ LET old == CHOOSE r \in attendance : r.id = id
           targets == UpdateTargets(c, attendance, id)
           updated == {[r EXCEPT !.user_id = u, !.check_out = now] : r \in targets}
           ok == /\ targets # {}
                 /\ \A r \in updated : AttendanceUpdateUsing(c, r)
                 /\ \A r \in updated : ~UniqueViolation(attendance, r)
       IN  /\ api' = ApiCall("update", "attendance", c, old.user_id, ok, {})
           /\ attendance' = IF ok THEN (attendance \ targets) \cup updated ELSE attendance
    /\ UNCHANGED <<now, nextId, user_roles, profiles, pageVars>>
    /\ UNCHANGED extVars

\* from("attendance").delete().eq("id", id)
ApiDeleteAttendance(c, id) ==
    /\ \E r \in attendance : r.id = id
    /\ LET old == CHOOSE r \in attendance : r.id = id
           targets == {r \in attendance : r.id = id /\ AttendanceSelectUsing(c, r)
                                                    /\ AttendanceDeleteUsing(c, r)}
       IN  /\ api' = ApiCall("delete", "attendance", c, old.user_id, targets # {}, {})
           /\ attendance' = attendance \ targets
    /\ UNCHANGED <<now, nextId, user_roles, profiles, pageVars>>
    /\ UNCHANGED extVars

\* the department texts a caller may write into a profile
Departments == {"", "eng"}

\* from("profiles").update({department: d}).eq("user_id", owner)
ApiUpdateProfile(c, owner, d) ==
    /\ LET ok == ProfileSelectUsing(c, owner) /\ ProfileUpdateUsing(c, owner)
       IN  /\ api' = ApiCall("update", "profiles", c, owner, ok, {})
           /\ profiles' = IF ok THEN [profiles EXCEPT ![owner] = d] ELSE profiles
    /\ UNCHANGED <<now, attendance, nextId, user_roles, pageVars>>
    /\ UNCHANGED extVars

RowIds == 1..(MaxRows + 1)

NextRLS ==
    \/ \E c \in Users : ApiSelectAttendance(c)
    \/ \E c \in Users, u \in Users, t \in ClockReadings : ApiInsertAttendance(c, u, t)
    \/ \E c \in Users, id \in RowIds, u \in Users : ApiUpdateAttendance(c, id, u)
    \/ \E c \in Users, id \in RowIds : ApiDeleteAttendance(c, id)
    \/ \E c \in Users, o \in Users, d \in Departments : ApiUpdateProfile(c, o, d)

SpecRLS == Init /\ [][NextRLS]_vars

\* ================================================================== claims
RowsOf(table, u, d) == {r \in table : r.user_id = u /\ r.date = d}
Days == {formatDate(t) : t \in ClockReadings}

\* the step in which handleCheckIn / handleCheckOut of session s returns
CheckInReturns(s) == pc[s] = "checkIn" /\ pc'[s] = "idle"
CheckOutReturns(s) == pc[s] = "checkOut" /\ pc'[s] = "idle"

\* C1: the table never holds two rows for one (user, date); a check-in for a
\* (user, day) that already has a row is answered with the duplicate-key
\* error, shown in the "Check-in failed" toast, and leaves the table as it
\* was, with exactly one row for that pair.
C1_OneRecordPerUserDay ==
    [][ /\ \A r1, r2 \in attendance' :
               (r1.user_id = r2.user_id /\ r1.date = r2.date) => r1 = r2
        /\ \A s \in Sessions :
               (CheckInReturns(s) /\ RowsOf(attendance, SessionUser(s), req[s].date) # {})
               => /\ attendance' = attendance
                  /\ toast' = [session |-> s, title |-> "Check-in failed",
                               description |-> DuplicateKey]
                  /\ Cardinality(RowsOf(attendance', SessionUser(s), req[s].date)) = 1
      ]_vars

\* a second check-in for today was refused and one row for the day exists
C1_Witness ==
    /\ toast.title = "Check-in failed"
    /\ toast.description = DuplicateKey
    /\ \E d \in Days : Cardinality(RowsOf(attendance, SessionUser(toast.session), d)) = 1

\* C2: two check-ins of one user for one day are in flight together while the
\* day has no row.  The insert that lands first succeeds and creates the only
\* row of the day, the other stays in flight; an in-flight check-in that lands
\* when the day's row exists gets the duplicate-key error and adds nothing.
C2_ConcurrentCheckIn ==
    [][ \A s, t \in Sessions :
          (s # t /\ SessionUser(s) = SessionUser(t) /\ pc[t] = "checkIn") =>
            /\ (/\ CheckInReturns(s)
                /\ req[s].date = req[t].date
                /\ RowsOf(attendance, SessionUser(s), req[s].date) = {})
               => /\ toast'.session = s
                  /\ toast'.title = "Check-in successful!"
                  /\ Cardinality(RowsOf(attendance', SessionUser(s), req[s].date)) = 1
                  /\ pc'[t] = "checkIn"
            /\ (/\ CheckInReturns(t)
                /\ \E r \in todayAttendance[s] : r \in RowsOf(attendance, SessionUser(t),
                                                               req[t].date))
               => /\ toast'.session = t
                  /\ toast'.title = "Check-in failed"
                  /\ toast'.description = DuplicateKey
                  /\ Cardinality(RowsOf(attendance', SessionUser(t), req[t].date)) = 1
                  /\ todayAttendance'[t] = {}
      ]_vars

\* session t started its check-in first and is still in flight, while
\* session s of the same user started later and has already created the row
C2_Witness ==
    \E s, t \in Sessions :
        /\ s # t
        /\ SessionUser(s) = SessionUser(t)
        /\ pc[t] = "checkIn"
        /\ toast.session = s
        /\ toast.title = "Check-in successful!"
        /\ \E r \in todayAttendance[s] :
               r \in attendance /\ r.date = req[t].date /\ r.check_in > req[t].ts

\* C3: a row created by check-in has status 'present' when the hour of the
\* check-in is below 9 and 'late' from 9 on, check_in = the instant read when
\* the handler started, check_out = null, and the handler's user and day.
C3_StatusAtCheckIn ==
    [][ /\ \A s \in Sessions :
               (pc[s] = "idle" /\ pc'[s] = "checkIn") => req'[s].ts = now
        /\ \A r \in {x \in attendance' : \A r0 \in attendance : r0.id # x.id} :
               /\ getHours(r.check_in) < LateCutoffHour => r.status = "present"
               /\ getHours(r.check_in) >= LateCutoffHour => r.status = "late"
               /\ r.check_out = NoTime
               /\ \E s \in Sessions :
                      /\ CheckInReturns(s)
                      /\ r.check_in = req[s].ts
                      /\ r.user_id = SessionUser(s)
                      /\ r.date = formatDate(req[s].ts)
      ]_vars

\* one row was created before 09:00 and one at 09:00 exactly
C3_Witness ==
    \E r1, r2 \in attendance :
        /\ getHours(r1.check_in) = LateCutoffHour /\ r1.status = "late"
        /\ getHours(r2.check_in) < LateCutoffHour /\ r2.status = "present"
        /\ r1.check_out = NoTime

\* C4 (as claimed): a check-out that reaches a row whose check_out is already
\* set fails and leaves the table unchanged.
C4_NoSecondCheckOut ==
    [][ \A s \in Sessions :
          (CheckOutReturns(s) /\ \E r \in attendance : r.id = req[s].id /\ r.check_out # NoTime)
          => (attendance' = attendance /\ toast'.title = "Check-out failed")
      ]_vars

\* C5: for every (user, day) the state moves only Unmarked -> CheckedIn ->
\* CheckedOut, one stage at a time and never back.
DayRank(table, u, d) ==
    IF RowsOf(table, u, d) = {} THEN 0
    ELSE IF \E r \in RowsOf(table, u, d) : r.check_out = NoTime THEN 1
    ELSE 2

C5_DayStateMonotone ==
    [][ \A u \in Users, d \in Days :
          \/ DayRank(attendance', u, d) = DayRank(attendance, u, d)
          \/ DayRank(attendance', u, d) = DayRank(attendance, u, d) + 1
      ]_vars

\* a day is CheckedOut while another session still shows it as CheckedIn
C5_Witness ==
    \E s \in Sessions : \E r \in attendance : \E r0 \in todayAttendance[s] :
        /\ r.id = r0.id
        /\ r.check_out # NoTime
        /\ r0.check_out = NoTime
        /\ toast.title = "Check-out successful!"

\* C6: no step changes the status, check_in, date or user_id of an existing
\* row or removes a row, and every row's status is the one its check-in hour
\* gives.
C6_StatusFixedAtCreation ==
    [][ /\ \A r \in attendance : \E r2 \in attendance' :
               /\ r2.id = r.id
               /\ r2.status = r.status
               /\ r2.check_in = r.check_in
               /\ r2.date = r.date
               /\ r2.user_id = r.user_id
        /\ \A r \in attendance' :
               r.status = IF getHours(r.check_in) >= LateCutoffHour THEN "late"
                          ELSE "present"
      ]_vars

\* a row checked in before the cutoff and checked out after it is still
\* 'present', and its notes were written by the check-out
C6_Witness ==
    \E r \in attendance :
        /\ r.status = "present"
        /\ r.check_out # NoTime
        /\ getHours(r.check_out) >= LateCutoffHour
        /\ r.notes # NullText

C8_CheckOutOnlyOwnRecord ==
    [][ \A s \in Sessions :
          /\ \A r \in todayAttendance'[s] : r.user_id = SessionUser(s)
          /\ CheckOutReturns(s) =>
                \A r \in attendance : r.user_id # SessionUser(s) => r \in attendance'
      ]_vars

\* C9: a direct call by a caller without the admin role sees only the
\* caller's rows, leaves every row of another user as it was, and creates or
\* rewrites only rows whose user_id is the caller; a caller with the admin
\* role sees every row, and their insert, update or delete is refused only
\* for a duplicate (user, date) or a row that does not exist.
C9_AttendanceRowAccess ==
    [][ LET a == api' IN
        /\ (a.table = "attendance" /\ ~a.admin) =>
             /\ \A r \in a.seen : r.user_id = a.caller
             /\ \A r \in attendance : r.user_id # a.caller => r \in attendance'
             /\ \A r \in attendance' \ attendance : r.user_id = a.caller
             /\ a.ok => a.owner = a.caller
        /\ (a.table = "attendance" /\ a.admin) =>
             /\ a.op = "select" => a.seen = attendance
             /\ a.op \in {"update", "delete"} => a.ok \/ attendance' = attendance
             /\ (a.op = "delete" /\ a.ok) => Cardinality(attendance') < Cardinality(attendance)
             /\ (a.op = "insert" /\ ~a.ok) =>
                    \E r \in attendance : r.user_id = a.owner
      ]_vars

\* a non-admin's update or delete of another user's row was refused and the
\* row is still there
C9_Witness ==
    /\ api.table = "attendance"
    /\ api.op \in {"update", "delete"}
    /\ ~api.admin
    /\ api.owner # api.caller
    /\ ~api.ok
    /\ \E r \in attendance : r.user_id # api.caller

UserRolesSelectUsing(uid, owner) == uid = owner \/ has_role(uid, "admin")

UserRolesManageUsing_any(uid) == TRUE

\* "Admins can manage roles" FOR ALL: the USING expression is also the check
\* of inserted rows
UserRolesManageUsing(uid) == has_role(uid, "admin")

\* the stored roles of a user
RolesOf(table, u) == {r[2] : r \in {q \in table : q[1] = u}}

\* DELETE FROM user_roles WHERE user_id = userId, as seen by the caller
DeleteRoles(uid, table, userId) ==
    {r \in table : ~(r[1] = userId /\ UserRolesManageUsing(uid))}

\* the error of INSERT INTO user_roles (user_id, role), "" when it succeeds
InsertRoleError(uid, table, row) ==
    IF ~UserRolesManageUsing(uid) THEN "row-level security"
    ELSE IF row \in table THEN "duplicate key"
    ELSE ""

\* useAuth().isAdmin of the session's user
isAdmin(s) == has_role(SessionUser(s), "admin")

\* the rows the user_roles select of fetchUsers returns to the caller
VisibleRoles(uid) == {r \in user_roles : UserRolesSelectUsing(uid, r[1])}

\* the page opens for an administrator and fetchUsers fills userRoles: the
\* rows come in no stated order and the last row of a user wins
fetchUsers(s) ==
    /\ ~rolesPage[s].open
    /\ isAdmin(s)
    /\ \E rolesMap \in [Users -> AppRoles \cup {""}] :
           /\ \A u \in Users :
                  IF \E r \in VisibleRoles(SessionUser(s)) : r[1] = u
                  THEN <<u, rolesMap[u]>> \in VisibleRoles(SessionUser(s))
                  ELSE rolesMap[u] = ""
           /\ rolesPage' = [rolesPage EXCEPT ![s].open = TRUE,
                                             ![s].userRoles = rolesMap]
    /\ toast' = NoToast
    /\ UNCHANGED <<now, storeVars, todayAttendance, isLoading, isSubmitting,
                   notes, pc, req, api, gw, chat, view>>

\* the role the select of a row of the page shows
ShownRole(s, u) ==
    IF rolesPage[s].userRoles[u] = "" THEN "user" ELSE rolesPage[s].userRoles[u]

\* handleRoleChange up to its second await: the delete request has run
handleRoleChange(s, userId, newRole) ==
    /\ rolesPage[s].open
    /\ rolesPage[s].pc = "idle"
    /\ user_roles' = DeleteRoles(SessionUser(s), user_roles, userId)
    /\ rolesPage' = [rolesPage EXCEPT ![s].pc = "insert",
                                      ![s].userId = userId,
                                      ![s].newRole = newRole,
                                      ![s].wasAdmin = isAdmin(s),
                                      ![s].before = RolesOf(user_roles, userId)]
    /\ toast' = NoToast
    /\ UNCHANGED <<now, attendance, nextId, profiles, todayAttendance, isLoading,
                   isSubmitting, notes, pc, req, api, gw, chat, view>>

\* handleRoleChange from the insert request to its return; the locals of the
\* call end with it
handleRoleChange_await(s) ==
    /\ rolesPage[s].pc = "insert"
    /\ LET row == <<rolesPage[s].userId, rolesPage[s].newRole>>
           error == InsertRoleError(SessionUser(s), user_roles, row)
       IN  IF error = ""
           THEN /\ user_roles' = user_roles \cup {row}
                /\ rolesPage' = [rolesPage EXCEPT
                       ![s] = [IdleRolesPage EXCEPT
                           !.open = TRUE,
                           !.userRoles = [rolesPage[s].userRoles EXCEPT
                               ![rolesPage[s].userId] = rolesPage[s].newRole]]]
                /\ toast' = [session |-> s, title |-> "Role updated",
                             description |-> "User role has been updated successfully."]
           ELSE /\ user_roles' = user_roles
                /\ rolesPage' = [rolesPage EXCEPT
                       ![s] = [IdleRolesPage EXCEPT
                           !.open = TRUE, !.userRoles = rolesPage[s].userRoles]]
                /\ toast' = [session |-> s, title |-> "Failed to update role",
                             description |-> error]
    /\ UNCHANGED <<now, attendance, nextId, profiles, todayAttendance, isLoading,
                   isSubmitting, notes, pc, req, api, gw, chat, view>>

NextRoles ==
    \/ \E s \in Sessions : fetchUsers(s)
    \/ \E s \in Sessions, u \in Users, r \in AppRoles : handleRoleChange(s, u, r)
    \/ \E s \in Sessions : handleRoleChange_await(s)

SpecRoles == Init /\ [][NextRoles]_vars

\* handleRoleChange of session s returns in this step
RoleChangeReturns(s) == rolesPage[s].pc = "insert" /\ rolesPage'[s].pc = "idle"

\* C11: a handleRoleChange(userId, newRole) invoked by a caller who held the
\* admin role ends with the stored roles of userId being exactly {newRole}
\* and with the page showing newRole for userId, the caller's own id included.
C11_AdminReplacesAnyRole ==
    [][\A s \in Sessions :
          (RoleChangeReturns(s) /\ rolesPage[s].wasAdmin) =>
              /\ RolesOf(user_roles', rolesPage[s].userId) = {rolesPage[s].newRole}
              /\ rolesPage'[s].userRoles[rolesPage[s].userId] = rolesPage[s].newRole]_vars

\* ================================================ attendance-ai function ==
\* .limit(100) of the attendance query
ContextLimit == 100

\* request methods; any method but OPTIONS takes the same path
Methods == {"OPTIONS", "POST", "GET"}

\* what req.json() finds: a JSON object with a messages array, a JSON value
\* without iterable messages, the JSON value null, text that is not JSON, no body
BodyKinds == {"messages", "no_messages", "null", "malformed", "absent"}

\* the bearer credential: the access token of a user, or 0 for one that is
\* expired or forged
Tokens == Users \cup {0}

\* statuses the upstream completion service answers with, 0 when fetch throws
UpstreamStatuses == {200, 201, 402, 429, 500, 503}
FetchThrows == 0

\* the bodies of upstream answers
UpstreamBodies == {"sse_a", "sse_b"}

\* attendance rows of a user for the days 1..n, the newest inserted first
HistoryOf(u, n, firstId) ==
    {[id |-> firstId + (n - d), user_id |-> u, date |-> d,
      check_in |-> d * HoursPerDay + StartNow, check_out |-> NoTime,
      status |-> "present", notes |-> NullText] : d \in 1..n}

\* the attendance tables the function is invoked on: user 1 has no row, one
\* row, or one row more than the query's limit; user 2 has two rows or none
GatewayStores ==
    {HistoryOf(1, n1, 1) \cup HistoryOf(2, n2, n1 + 1) :
        n1 \in {0, 1, ContextLimit + 1}, n2 \in {0, 2}}

InitGateway ==
    /\ now = StartNow
    /\ attendance \in GatewayStores
    /\ nextId = Cardinality(attendance) + 1
    /\ \E admins \in AdminSets :
           user_roles = {<<u, "user">> : u \in Users} \cup {<<u, "admin">> : u \in admins}
    /\ profiles = [u \in Users |-> ""]
    /\ todayAttendance = [s \in Sessions |-> {}]
    /\ isLoading = [s \in Sessions |-> TRUE]
    /\ isSubmitting = [s \in Sessions |-> FALSE]
    /\ notes = [s \in Sessions |-> ""]
    /\ pc = [s \in Sessions |-> "idle"]
    /\ req = [s \in Sessions |-> IdleReq]
    /\ toast = NoToast
    /\ api = NoApi
    /\ rolesPage = [s \in Sessions |-> IdleRolesPage]
    /\ gw = IdleGw
    /\ chat = IdleChat
    /\ view = IdleView

\* new Response(JSON.stringify({ error }), { status, headers: corsHeaders + JSON })
ErrorResponse(status, error) ==
    [status |-> status, error |-> error, contentType |-> "application/json",
     body |-> "", cors |-> TRUE]

\* the invocation ends with this response
Respond(g, response) ==
    [g EXCEPT !.pc = "done", !.response = response, !.responses = g.responses + 1]

\* the catch block of the handler
CatchError_rethrow(g, message) == [g EXCEPT !.pc = "failed"]
CatchError(g, message) == Respond(g, ErrorResponse(500, message))

\* .order("date", { ascending: false }) on a set of rows
RECURSIVE OrderByDateAsc(_)
RECURSIVE OrderByDateDesc(_)
OrderByDateAsc(rows) ==
    IF rows = {} THEN <<>>
    ELSE LET first == CHOOSE r \in rows : \A q \in rows : r.date <= q.date
         IN  <<first>> \o OrderByDateAsc(rows \ {first})
OrderByDateDesc(rows) ==
    IF rows = {} THEN <<>>
    ELSE LET first == CHOOSE r \in rows : \A q \in rows : q.date <= r.date
         IN  <<first>> \o OrderByDateDesc(rows \ {first})

\* .limit(n)
Limit(rows, n) == SubSeq(rows, 1, IF Len(rows) < n THEN Len(rows) ELSE n)

\* .eq("user_id", user.id); the service-role client is not subject to the policies
EqUserId_all(table, uid) == table
EqUserId(table, uid) == {r \in table : r.user_id = uid}

\* the attendance query of the function
AttendanceQuery(table, uid) == Limit(OrderByDateDesc(EqUserId(table, uid)), ContextLimit)

\* one line of the context: the date, status, times and notes of a record
AttendanceLine(a) ==
    [date |-> a.date, status |-> a.status, check_in |-> a.check_in,
     check_out |-> a.check_out, notes |-> a.notes]

\* const attendanceContext = attendance ? `...${attendance.map(...)}` : "No ..."
\* (an array, empty or not, takes the first branch)
BuildAttendanceContext(isNull, data) ==
    IF ~isNull
    THEN [text |-> "User's recent attendance records (last 100 days):",
          lines |-> [i \in 1..Len(data) |-> AttendanceLine(data[i])]]
    ELSE [text |-> "No attendance records found.", lines |-> <<>>]

\* const userContext = profile ? `User: ..., Department: ...` : "User profile not found."
BuildUserContext(isNull, uid, department) ==
    IF ~isNull
    THEN [text |-> "User:", user |-> uid,
          department |-> IF department = "" THEN "Not specified" ELSE department]
    ELSE [text |-> "User profile not found.", user |-> 0, department |-> ""]

\* response.ok
Ok(status) == status >= 200 /\ status <= 299

\* a request arrives: an OPTIONS request is answered at once, any other runs
\* up to the await of req.json(); invocations share nothing but the store,
\* which none of them writes, so one invocation is followed
Invoke(method, hasAuth, token, body, envSet, keySet) ==
    LET g == [IdleGw EXCEPT !.method = method, !.hasAuth = hasAuth,
                            !.token = token, !.body = body,
                            !.envSet = envSet, !.keySet = keySet]
    IN  IF method = "OPTIONS"
        THEN Respond(g, [status |-> 200, error |-> "", contentType |-> "",
                         body |-> "", cors |-> TRUE])
        ELSE [g EXCEPT !.pc = "json"]

serve(method, hasAuth, token, body, envSet, keySet) ==
    /\ gw.pc = "idle"
    /\ hasAuth \/ token = 0
    /\ method = "POST" \/ body = "absent"
    /\ gw' = Invoke(method, hasAuth, token, body, envSet, keySet)
    /\ UNCHANGED <<now, storeVars, pageVars, api, rolesPage, chat, view>>

\* await req.json() rejects when the body is not JSON text
JsonThrows_never(body) == FALSE
JsonThrows(body) == body \in {"malformed", "absent"}

\* from the result of req.json() to the await of auth.getUser(token)
serve_json ==
    /\ gw.pc = "json"
    /\ gw' = IF JsonThrows(gw.body)
                 THEN CatchError(gw, "Unexpected end of JSON input")
             ELSE IF gw.body = "null"
                 THEN CatchError(gw, "Cannot destructure property 'messages'")
             ELSE IF ~gw.hasAuth
                 THEN Respond(gw, ErrorResponse(401, "Unauthorized"))
             ELSE IF ~gw.envSet
                 THEN CatchError(gw, "supabaseUrl is required.")
             ELSE [gw EXCEPT !.pc = "getUser", !.authCalls = gw.authCalls + 1]
    /\ UNCHANGED <<now, storeVars, pageVars, api, rolesPage, chat, view>>

\* if (authError || !user)
Rejected_errorOnly(authError, user) == authError
Rejected(authError, user) == authError \/ user = 0

\* from the result of auth.getUser(token) to the await of the attendance
\* query; the identity service may fail for a good token
serve_getUser(authError) ==
    /\ gw.pc = "getUser"
    /\ LET user == IF authError THEN 0 ELSE gw.token
       IN  gw' = IF Rejected(authError, user)
                 THEN Respond(gw, ErrorResponse(401, "Invalid token"))
                 ELSE [gw EXCEPT !.pc = "attendance", !.user = user,
                                 !.storeReads = Append(gw.storeReads, "attendance")]
    /\ UNCHANGED <<now, storeVars, pageVars, api, rolesPage, chat, view>>

\* from the result of the attendance query to the await of the profile query
serve_attendance(queryError) ==
    /\ gw.pc = "attendance"
    /\ gw' = [gw EXCEPT
                 !.pc = "profile",
                 !.attendanceNull = queryError,
                 !.attendance = IF queryError THEN <<>>
                                ELSE AttendanceQuery(attendance, gw.user),
                 !.storeReads = Append(gw.storeReads, "profiles")]
    /\ UNCHANGED <<now, storeVars, pageVars, api, rolesPage, chat, view>>

\* if (!LOVABLE_API_KEY)
KeyMissing_never(keySet) == FALSE
KeyMissing(keySet) == ~keySet

\* from the result of the profile query (.single(): no row is an error) to
\* the await of the upstream fetch
serve_profile(noProfile) ==
    /\ gw.pc = "profile"
    /\ LET g == [gw EXCEPT
                    !.profileNull = noProfile,
                    !.department = IF noProfile THEN "" ELSE profiles[gw.user],
                    !.attendanceContext =
                        BuildAttendanceContext(gw.attendanceNull, gw.attendance),
                    !.userContext =
                        BuildUserContext(noProfile, gw.user, profiles[gw.user])]
       IN  gw' = IF KeyMissing(gw.keySet)
                     THEN Respond(g, ErrorResponse(500, "AI service not configured"))
                 ELSE IF gw.body = "no_messages"
                     THEN CatchError(g, "messages is not iterable")
                 ELSE [g EXCEPT !.pc = "fetch", !.upstreamCalls = g.upstreamCalls + 1]
    /\ UNCHANGED <<now, storeVars, pageVars, api, rolesPage, chat, view>>

\* the response for an upstream answer
UpstreamResponse_no429(status, body) ==
    IF status = 402 THEN ErrorResponse(402, "Payment required")
    ELSE IF ~Ok(status) THEN ErrorResponse(500, "AI gateway error")
    ELSE [status |-> 200, error |-> "", contentType |-> "text/event-stream",
          body |-> body, cors |-> TRUE]
UpstreamResponse(status, body) ==
    IF status = 429 THEN ErrorResponse(429, "Rate limit exceeded")
    ELSE IF status = 402 THEN ErrorResponse(402, "Payment required")
    ELSE IF ~Ok(status) THEN ErrorResponse(500, "AI gateway error")
    ELSE [status |-> 200, error |-> "", contentType |-> "text/event-stream",
          body |-> body, cors |-> TRUE]

\* from the result of the upstream fetch to the response
serve_fetch(status, body) ==
    /\ gw.pc = "fetch"
    /\ gw' = IF status = FetchThrows
             THEN CatchError(gw, "error sending request")
             ELSE Respond([gw EXCEPT !.upstreamStatus = status,
                                     !.upstreamBody = body],
                          UpstreamResponse(status, body))
    /\ UNCHANGED <<now, storeVars, pageVars, api, rolesPage, chat, view>>

NextGateway ==
    \/ \E method \in Methods, hasAuth \in BOOLEAN, token \in Tokens,
          body \in BodyKinds, envSet \in BOOLEAN, keySet \in BOOLEAN :
           serve(method, hasAuth, token, body, envSet, keySet)
    \/ serve_json
    \/ \E authError \in BOOLEAN : serve_getUser(authError)
    \/ \E queryError \in BOOLEAN : serve_attendance(queryError)
    \/ \E noProfile \in BOOLEAN : serve_profile(noProfile)
    \/ \E status \in UpstreamStatuses \cup {FetchThrows}, body \in UpstreamBodies :
           serve_fetch(status, body)

SpecGateway == InitGateway /\ [][NextGateway]_vars

\* ------------------------------------------- claims on the edge function
\* the invocation has ended
GwDone == gw.pc = "done"

\* the invocation got past authentication
GwAuthenticated == gw.user # 0

\* the invocation made no authentication, store or upstream call
GwNoCalls == gw.authCalls = 0 /\ gw.storeReads = <<>> /\ gw.upstreamCalls = 0

\* C12: every POST invocation without an Authorization header returns 401
\* "Unauthorized", whatever its body is.
C12_NoHeaderAlways401 ==
    (GwDone /\ gw.method = "POST" /\ ~gw.hasAuth) =>
        (gw.response.status = 401 /\ gw.response.error = "Unauthorized")

\* C12 (amended): a POST invocation without an Authorization header returns
\* 401 "Unauthorized" when its body parses to a JSON value other than null,
\* and 500 when the body is absent, not JSON, or null; in both cases it makes
\* no authentication, store or upstream call.
C12_NoHeaderParsedBody401 ==
    (GwDone /\ gw.method = "POST" /\ ~gw.hasAuth) =>
        /\ GwNoCalls
        /\ IF gw.body \in {"messages", "no_messages"}
           THEN gw.response.status = 401 /\ gw.response.error = "Unauthorized"
           ELSE gw.response.status = 500

C12_Witness ==
    /\ GwDone /\ gw.method = "POST" /\ ~gw.hasAuth
    /\ gw.body = "no_messages" /\ gw.response.status = 401

\* C13: when the identity service rejects the credential (an error, or no
\* user) the response is 401 "Invalid token", and an invocation that ends in
\* 401 has read neither table and has made no upstream call.
C13_AuthFailureTerminal ==
    /\ (GwDone /\ gw.authCalls = 1 /\ ~GwAuthenticated) =>
           (gw.response.status = 401 /\ gw.response.error = "Invalid token")
    /\ (gw.authCalls = 1 /\ ~GwAuthenticated /\ ~GwDone) => gw.pc = "getUser"
    /\ (GwDone /\ gw.response.status = 401) =>
           (gw.storeReads = <<>> /\ gw.upstreamCalls = 0)

C13_Witness ==
    /\ GwDone /\ gw.authCalls = 1 /\ gw.token # 0
    /\ gw.response.status = 401 /\ gw.response.error = "Invalid token"

\* C14: the upstream call is made at most once, exactly once by an
\* authenticated, configured invocation with a messages array, and its status
\* decides the response: 429 gives 429 "Rate limit exceeded", 402 gives 402
\* "Payment required", another non-success 500 "AI gateway error", success
\* 200 with content type text/event-stream and the upstream body unmodified.
C14_UpstreamStatusDecides ==
    /\ gw.upstreamCalls <= 1
    /\ (GwDone /\ GwAuthenticated /\ gw.keySet /\ gw.body = "messages") =>
           gw.upstreamCalls = 1
    /\ (GwDone /\ gw.upstreamStatus # 0) =>
           LET st == gw.upstreamStatus
               r == gw.response
           IN  /\ gw.upstreamCalls = 1
               /\ st = 429 => (r.status = 429 /\ r.error = "Rate limit exceeded")
               /\ st = 402 => (r.status = 402 /\ r.error = "Payment required")
               /\ (st \notin {402, 429} /\ (st < 200 \/ st > 299)) =>
                      (r.status = 500 /\ r.error = "AI gateway error")
               /\ (st >= 200 /\ st <= 299) =>
                      /\ r.status = 200
                      /\ r.contentType = "text/event-stream"
                      /\ r.body = gw.upstreamBody

C14_Witness ==
    GwDone /\ gw.upstreamStatus = 429 /\ gw.response.status = 429

\* C15: when the attendance query returns an empty set (or no data) or the
\* profile is absent, an authenticated invocation still makes the upstream
\* call and returns 200 on upstream success, and its context says that no
\* attendance records were found (respectively that the profile was not found).
C15_MissingDataPlaceholder ==
    (GwDone /\ GwAuthenticated /\ gw.keySet /\ gw.body = "messages") =>
        /\ gw.upstreamCalls = 1
        /\ (gw.upstreamStatus = 200) => gw.response.status = 200
        /\ (gw.attendanceNull \/ gw.attendance = <<>>) =>
               gw.attendanceContext.text = "No attendance records found."
        /\ gw.profileNull => gw.userContext.text = "User profile not found."

\* C16: when the AI-gateway credential is absent the invocation yields 500
\* and attempts no upstream call.
C16_NoKeyAlways500 ==
    (GwDone /\ gw.method = "POST" /\ ~gw.keySet) =>
        (gw.response.status = 500 /\ gw.upstreamCalls = 0)

\* C16 (amended): when the AI-gateway credential is absent no upstream call
\* is attempted, and an invocation that gets past authentication yields 500
\* "AI service not configured"; one that does not is answered as usual.
C16_NoKeyAuthenticated500 ==
    ~gw.keySet =>
        /\ gw.upstreamCalls = 0
        /\ (GwDone /\ GwAuthenticated) =>
               (gw.response.status = 500 /\ gw.response.error = "AI service not configured")

C16_Witness ==
    GwDone /\ ~gw.keySet /\ GwAuthenticated /\ gw.response.status = 500

\* C17: every invocation ends with exactly one response, whose status is one
\* of 200, 401, 402, 429, 500: an invocation is at one of the handler's
\* awaits and has not responded, or it has finished and has responded once,
\* whatever the request, the configuration and the answers (or exceptions) of
\* the services; an OPTIONS request gets an empty body with the CORS headers
\* and makes no authentication, store or upstream call.
C17_AlwaysOneResponse ==
    /\ gw.pc \in {"idle", "json", "getUser", "attendance", "profile", "fetch", "done"}
    /\ ~GwDone => (gw.responses = 0 /\ gw.response.status = 0)
    /\ GwDone => /\ gw.responses = 1
                 /\ gw.response.status \in {200, 401, 402, 429, 500}
                 /\ gw.response.cors
    /\ (GwDone /\ gw.method = "OPTIONS") =>
           (gw.response.body = "" /\ gw.response.error = "" /\ GwNoCalls)

C17_Witness ==
    /\ GwDone /\ gw.method = "POST" /\ gw.upstreamCalls = 1
    /\ gw.upstreamStatus = 0 /\ gw.response.status = 500

\* the rows of the caller in the table
MyRows == {r \in attendance : r.user_id = gw.user}

\* the rows the attendance query handed to the invocation
FetchedRows == {gw.attendance[i] : i \in 1..Len(gw.attendance)}

\* C18: the records the function fetches for its context are rows of the
\* authenticated user, at most 100, each once, no omitted row of the user is
\* newer than an included one, the context lines are those records in that
\* order; and no step of an invocation writes to the store.
C18_ContextOnlyOwnRecent ==
    /\ [](/\ FetchedRows \subseteq MyRows
          /\ Len(gw.attendance) <= ContextLimit
          /\ Cardinality(FetchedRows) = Len(gw.attendance)
          /\ \A i, j \in 1..Len(gw.attendance) :
                 i < j => gw.attendance[i].date > gw.attendance[j].date
          /\ \A r \in MyRows \ FetchedRows, q \in FetchedRows : r.date < q.date
          /\ gw.pc \in {"fetch", "done"} =>
                 \/ gw.attendanceContext.lines = <<>>
                 \/ gw.attendanceContext.lines =
                        [i \in 1..Len(gw.attendance) |-> AttendanceLine(gw.attendance[i])])
    /\ [][storeVars' = storeVars]_vars

C18_Witness ==
    /\ gw.pc = "fetch"
    /\ Len(gw.attendance) = ContextLimit
    /\ Cardinality(MyRows) > ContextLimit
    /\ \E r \in attendance : r.user_id # gw.user
    /\ Len(gw.attendanceContext.lines) = ContextLimit

\* ================================================== AIAssistant stream loop ==
\* the longest response body, in lines
MaxLines == 2

\* text is a sequence of characters; bytes are the characters themselves but
\* for the two bytes of E_ACUTE
NL == "\n"
CR == "\r"
E_ACUTE == "e-acute"
LeadByte == "C3"
ContinuationByte == "A9"
Replacement == "?"

DataPrefix == <<"d", "a", "t", "a", ":", " ">>
DoneMarker == <<"[", "D", "O", "N", "E", "]">>

\* the delta.content values the upstream sends, <<>> for a delta without content
Contents == {<<E_ACUTE, "b">>, <<>>}

\* the lines of a body: a data event with a JSON payload (ended by LF or
\* CRLF), the terminator, a blank line, a comment, a field other than data,
\* and a data line whose payload is not JSON
Events ==
    {[kind |-> "data", content |-> c, eol |-> <<NL>>] : c \in Contents}
    \cup {[kind |-> "data", content |-> <<"a">>, eol |-> <<CR, NL>>],
          [kind |-> "done", content |-> <<>>, eol |-> <<NL>>],
          [kind |-> "blank", content |-> <<>>, eol |-> <<NL>>],
          [kind |-> "comment", content |-> <<>>, eol |-> <<NL>>],
          [kind |-> "other", content |-> <<>>, eol |-> <<NL>>],
          [kind |-> "bad", content |-> <<"a">>, eol |-> <<NL>>]}

\* the JSON text of a chunk object carrying delta.content c, reduced to its
\* braces and the content
JsonStringify(c) == <<"{">> \o c \o <<"}">>

\* the text of a line
LineText(e) ==
    (CASE e.kind = "data"    -> DataPrefix \o JsonStringify(e.content)
       [] e.kind = "done"    -> DataPrefix \o DoneMarker
       [] e.kind = "blank"   -> <<>>
       [] e.kind = "comment" -> <<":", "k">>
       [] e.kind = "other"   -> <<"i", "d", ":", " ", "k">>
       [] e.kind = "bad"     -> DataPrefix \o <<"{">> \o e.content) \o e.eol

RECURSIVE BodyText(_)
\* the text of a body
BodyText(events) ==
    IF events = <<>> THEN <<>> ELSE LineText(Head(events)) \o BodyText(Tail(events))

RECURSIVE Utf8(_)
\* the bytes of a text
Utf8(text) ==
    IF text = <<>> THEN <<>>
    ELSE (IF Head(text) = E_ACUTE THEN <<LeadByte, ContinuationByte>>
          ELSE <<Head(text)>>) \o Utf8(Tail(text))

RECURSIVE Decode(_, _, _)
\* decoder.decode(value, { stream: true }): the text of the held bytes followed
\* by value, and the bytes held back for the next call
Decode(pending, value, text) ==
    IF value = <<>> THEN [text |-> text, pending |-> pending]
    ELSE LET b == Head(value)
         IN  IF pending = <<LeadByte>>
             THEN IF b = ContinuationByte
                  THEN Decode(<<>>, Tail(value), Append(text, E_ACUTE))
                  ELSE Decode(<<>>, value, Append(text, Replacement))
             ELSE IF b = LeadByte THEN Decode(<<LeadByte>>, Tail(value), text)
             ELSE IF b = ContinuationByte
                  THEN Decode(<<>>, Tail(value), Append(text, Replacement))
             ELSE Decode(<<>>, Tail(value), Append(text, b))

\* textBuffer.indexOf("\n"), counted from 1; 0 when there is none
IndexOfNewline(text) ==
    IF \E i \in 1..Len(text) : text[i] = NL
    THEN CHOOSE i \in 1..Len(text) : text[i] = NL /\ \A j \in 1..(i - 1) : text[j] # NL
    ELSE 0

\* line.startsWith(prefix)
StartsWith(line, prefix) ==
    Len(line) >= Len(prefix) /\ SubSeq(line, 1, Len(prefix)) = prefix

Whitespace == {" ", CR, NL}

RECURSIVE TrimStart(_)
TrimStart(text) ==
    IF text # <<>> /\ Head(text) \in Whitespace THEN TrimStart(Tail(text)) ELSE text

RECURSIVE TrimEnd(_)
TrimEnd(text) ==
    IF text # <<>> /\ text[Len(text)] \in Whitespace
    THEN TrimEnd(SubSeq(text, 1, Len(text) - 1)) ELSE text

\* text.trim()
Trim(text) == TrimEnd(TrimStart(text))

\* JSON.parse(jsonStr) followed by parsed.choices?.[0]?.delta?.content: the
\* text between the braces of a complete object; anything else throws
JsonParse(jsonStr) ==
    IF /\ Len(jsonStr) >= 2
       /\ jsonStr[1] = "{"
       /\ jsonStr[Len(jsonStr)] = "}"
       /\ \A i \in 2..(Len(jsonStr) - 1) : jsonStr[i] \notin {"{", "}"}
    THEN [ok |-> TRUE, content |-> SubSeq(jsonStr, 2, Len(jsonStr) - 1)]
    ELSE [ok |-> FALSE, content |-> <<>>]

\* jsonStr === "[DONE]"
IsDone_never(jsonStr) == FALSE
IsDone(jsonStr) == jsonStr = DoneMarker

\* textBuffer.slice(0, newlineIndex), the line taken off the buffer
TakeLine_whole(text, newlineIndex) == text
TakeLine(text, newlineIndex) == SubSeq(text, 1, newlineIndex - 1)

RECURSIVE ProcessBuffer(_)
\* the inner while loop on the locals c of sendMessage: lines are taken off
\* the buffer until none is complete, [DONE] is met, or a payload does not parse
ProcessBuffer(c) ==
    LET newlineIndex == IndexOfNewline(c.textBuffer)
    IN  IF newlineIndex = 0 THEN c
        ELSE LET line0 == TakeLine(c.textBuffer, newlineIndex)
                 rest == SubSeq(c.textBuffer, newlineIndex + 1, Len(c.textBuffer))
                 line == IF line0 # <<>> /\ line0[Len(line0)] = CR
                         THEN SubSeq(line0, 1, Len(line0) - 1) ELSE line0
                 jsonStr == Trim(SubSeq(line, Len(DataPrefix) + 1, Len(line)))
                 parsed == JsonParse(jsonStr)
             IN  IF StartsWith(line, <<":">>) \/ Trim(line) = <<>>
                     THEN ProcessBuffer([c EXCEPT !.textBuffer = rest])
                 ELSE IF ~StartsWith(line, DataPrefix)
                     THEN ProcessBuffer([c EXCEPT !.textBuffer = rest])
                 ELSE IF IsDone(jsonStr)
                     THEN [c EXCEPT !.textBuffer = rest, !.streamDone = TRUE]
                 ELSE IF ~parsed.ok
                     THEN [c EXCEPT !.textBuffer = line \o <<NL>> \o rest]
                 ELSE IF parsed.content = <<>>
                     THEN ProcessBuffer([c EXCEPT !.textBuffer = rest])
                 ELSE ProcessBuffer(
                          [c EXCEPT !.textBuffer = rest,
                                    !.assistantContent = c.assistantContent \o parsed.content,
                                    !.appends = Append(c.appends, parsed.content),
                                    !.shown = c.assistantContent \o parsed.content])

\* the bytes of the longest line and of the longest body
MaxLineBytes ==
    CHOOSE m \in 1..100 :
        /\ \A e \in Events : Len(Utf8(LineText(e))) <= m
        /\ \E e \in Events : Len(Utf8(LineText(e))) = m
MaxBodyBytes == MaxLines * MaxLineBytes

\* the bodies the function streams back: up to MaxLines lines, the last of
\* them ended by its newline or cut before it
Bodies == UNION {[1..n -> Events] : n \in 0..MaxLines}

\* import.meta.env.VITE_SUPABASE_PUBLISHABLE_KEY: the key of the project, the
\* same in every browser and the access token of no user
PublishableKey == 0

\* the texts of the input box, as characters
MessageTexts == {<<"h", "i">>, <<" ">>, <<>>}

\* if (!messageText.trim() || isLoading) return
Ignored_blankOnly(messageText, loading) == Trim(messageText) = <<>>
Ignored(messageText, loading) == Trim(messageText) = <<>> \/ loading

\* sendMessage(messageText) up to the await of fetch: the user message is
\* added, isLoading is set and the request leaves with the bearer credential
sendMessage(messageText) ==
    /\ IF Ignored(messageText, chat.isLoading)
       THEN UNCHANGED chat
       ELSE chat' = [IdleChat EXCEPT !.pc = "fetch", !.isLoading = TRUE,
                                     !.inFlight = chat.inFlight + 1,
                                     !.bearer = PublishableKey]
    /\ toast' = NoToast
    /\ UNCHANGED <<now, storeVars, todayAttendance, isLoading, isSubmitting, notes,
                   pc, req, api, rolesPage, gw, view>>

\* finally { setIsLoading(false) }, and the same on the early returns
Finally(c) == [c EXCEPT !.isLoading = FALSE, !.inFlight = c.inFlight - 1]

ChatToast(title, description) ==
    [session |-> 1, title |-> title, description |-> description]

\* catch (error): the toast "Error"; with finally, the end of sendMessage
Caught(c) == [Finally(c) EXCEPT !.pc = "failed"]
ErrorToast == ChatToast("Error", "Failed to get AI response. Please try again.")

\* statuses of a response that does not start a stream
FailureStatuses == {401, 402, 429, 500}

\* the response arrives with status 429 or 402 (toast, setIsLoading(false),
\* return), or it is not ok or has no body (throw, caught)
FailureChat(c, status) ==
    IF status \in {429, 402} THEN [Finally(c) EXCEPT !.pc = "returned"] ELSE Caught(c)
FailureToast(status) ==
    IF status = 429
    THEN ChatToast("Rate limit exceeded", "Please try again in a moment.")
    ELSE IF status = 402
    THEN ChatToast("Credits required", "Please add credits to continue using AI features.")
    ELSE ErrorToast

sendMessage_response(status, hasBody) ==
    /\ chat.pc = "fetch"
    /\ status \in FailureStatuses \/ ~hasBody
    /\ chat' = FailureChat(chat, status)
    /\ toast' = FailureToast(status)
    /\ UNCHANGED <<now, storeVars, todayAttendance, isLoading, isSubmitting, notes,
                   pc, req, api, rolesPage, gw, view>>

\* fetch rejects (no network), or reader.read() rejects in the loop
sendMessage_throws ==
    /\ chat.pc \in {"fetch", "read"}
    /\ chat' = Caught(chat)
    /\ toast' = ErrorToast
    /\ UNCHANGED <<now, storeVars, todayAttendance, isLoading, isSubmitting, notes,
                   pc, req, api, rolesPage, gw, view>>

\* the response arrives ok and with a body: the reader and the decoder are
\* created and the empty assistant message is added
StreamStart(c, events, terminated) ==
    LET bytes == Utf8(BodyText(events))
    IN  [c EXCEPT !.pc = "read",
                  !.events = events,
                  !.bytes = IF terminated THEN bytes
                            ELSE SubSeq(bytes, 1, Len(bytes) - 1)]

sendMessage_stream(events, terminated) ==
    /\ chat.pc = "fetch"
    /\ terminated \/ events # <<>>
    /\ chat' = StreamStart(chat, events, terminated)
    /\ UNCHANGED <<now, storeVars, pageVars, api, rolesPage, gw, view>>

\* one turn of the outer loop: reader.read() hands over the next n bytes,
\* they are decoded onto the buffer and the complete lines are processed
sendMessage_read(n) ==
    /\ chat.pc = "read"
    /\ chat.pos + n <= Len(chat.bytes)
    /\ LET value == SubSeq(chat.bytes, chat.pos + 1, chat.pos + n)
           decoded == Decode(chat.pending, value, <<>>)
           c == ProcessBuffer([chat EXCEPT
                                  !.pos = chat.pos + n,
                                  !.pending = decoded.pending,
                                  !.textBuffer = chat.textBuffer \o decoded.text])
       IN  chat' = IF c.streamDone THEN [Finally(c) EXCEPT !.pc = "finished"]
                   ELSE [c EXCEPT !.pc = "read"]
    /\ UNCHANGED <<now, storeVars, pageVars, api, rolesPage, gw, view>>

\* reader.read() reports the end of the body: the loop is left
sendMessage_end ==
    /\ chat.pc = "read"
    /\ chat.pos = Len(chat.bytes)
    /\ chat' = [Finally(chat) EXCEPT !.pc = "finished"]
    /\ UNCHANGED <<now, storeVars, pageVars, api, rolesPage, gw, view>>

NextStream ==
    \/ \E events \in Bodies, terminated \in BOOLEAN : sendMessage_stream(events, terminated)
    \/ \E n \in 1..MaxBodyBytes : sendMessage_read(n)
    \/ sendMessage_end

\* the page is the same for every signed-in user: nobody is an administrator
InitChat == Init /\ \A u \in Users : ~has_role(u, "admin")

\* a message has been sent and its response is awaited
InitStream ==
    /\ now = StartNow
    /\ attendance = {}
    /\ nextId = 1
    /\ user_roles = {<<u, "user">> : u \in Users}
    /\ profiles = [u \in Users |-> ""]
    /\ todayAttendance = [s \in Sessions |-> {}]
    /\ isLoading = [s \in Sessions |-> TRUE]
    /\ isSubmitting = [s \in Sessions |-> FALSE]
    /\ notes = [s \in Sessions |-> ""]
    /\ pc = [s \in Sessions |-> "idle"]
    /\ req = [s \in Sessions |-> IdleReq]
    /\ toast = NoToast
    /\ api = NoApi
    /\ rolesPage = [s \in Sessions |-> IdleRolesPage]
    /\ gw = IdleGw
    /\ chat = [IdleChat EXCEPT !.pc = "fetch", !.isLoading = TRUE, !.inFlight = 1,
                               !.bearer = PublishableKey]
    /\ view = IdleView

SpecStream == InitStream /\ [][NextStream]_vars

\* the whole of sendMessage, from the click to its end on every outcome; the
\* bodies are made of the lines that decide how the loop ends: a data line,
\* [DONE], and a data line that does not parse
ResponseStatuses == FailureStatuses \cup {200}
ChatBodies ==
    {b \in Bodies : \A i \in 1..Len(b) :
        b[i].kind \in {"done", "bad"} \/ (b[i].kind = "data" /\ b[i].content = <<"a">>)}
NetworkReturns ==
    \/ \E status \in ResponseStatuses, hasBody \in BOOLEAN :
           sendMessage_response(status, hasBody)
    \/ sendMessage_throws
    \/ \E events \in ChatBodies, terminated \in BOOLEAN :
           sendMessage_stream(events, terminated)
    \/ \E n \in 1..MaxBodyBytes : sendMessage_read(n)
    \/ sendMessage_end

NextChat ==
    \/ \E messageText \in MessageTexts : sendMessage(messageText)
    \/ NetworkReturns

SpecChat == InitChat /\ [][NextChat]_vars

\* every await of the network returns: a pending fetch or read completes
SpecChatLive == SpecChat /\ WF_vars(NetworkReturns)

\* ------------------------------------------------ claims on the stream loop
\* the body has only lines a server of well-formed events sends, each ended
\* by its newline
WellFormedBody ==
    /\ \A i \in 1..Len(chat.events) : chat.events[i].kind # "bad"
    /\ chat.bytes = Utf8(BodyText(chat.events))

\* the position of the first [DONE] line, past the end when there is none
DoneIndex(events) ==
    IF \E i \in 1..Len(events) : events[i].kind = "done"
    THEN CHOOSE i \in 1..Len(events) :
             events[i].kind = "done" /\ \A j \in 1..(i - 1) : events[j].kind # "done"
    ELSE Len(events) + 1

RECURSIVE ContentsBefore(_)
\* the delta.content values of the data lines before [DONE], in order
ContentsBefore(events) ==
    IF events = <<>> \/ Head(events).kind = "done" THEN <<>>
    ELSE (IF Head(events).kind = "data" /\ Head(events).content # <<>>
          THEN <<Head(events).content>> ELSE <<>>) \o ContentsBefore(Tail(events))

RECURSIVE Flatten(_)
Flatten(texts) == IF texts = <<>> THEN <<>> ELSE Head(texts) \o Flatten(Tail(texts))

\* the bytes of the first k lines
BytesOfLines(events, k) == Len(Utf8(BodyText(SubSeq(events, 1, k))))

\* the lines the reads so far have delivered whole
DeliveredLines ==
    SubSeq(chat.events, 1,
           Cardinality({k \in 1..Len(chat.events) : BytesOfLines(chat.events, k) <= chat.pos}))

\* C19: for a body of newline-terminated lines with well-formed data events,
\* however its bytes are cut into reads, the appends made so far are the
\* delta.content values of the data lines delivered whole and preceding
\* [DONE], one append per line and in order, the assistant content is their
\* concatenation, and at the end it is that of all data lines before [DONE];
\* blank lines, ':' lines and lines without 'data: ' add nothing.
C19_ReassemblyIgnoresChunking ==
    (chat.pc # "idle" /\ WellFormedBody) =>
        /\ chat.appends = ContentsBefore(DeliveredLines)
        /\ chat.assistantContent = Flatten(chat.appends)
        /\ chat.shown = chat.assistantContent
        /\ chat.pc = "finished" =>
               chat.assistantContent = Flatten(ContentsBefore(chat.events))

\* a read has ended inside the second data line and inside a character
C19_Witness ==
    /\ chat.pc = "read" /\ WellFormedBody
    /\ Len(chat.appends) = 1
    /\ StartsWith(chat.textBuffer, DataPrefix \o <<"{">>)
    /\ chat.pending = <<LeadByte>>

\* the whole [DONE] line has been delivered and no line before it fails to parse
DoneDelivered ==
    /\ DoneIndex(chat.events) <= Len(chat.events)
    /\ \A i \in 1..DoneIndex(chat.events) : chat.events[i].kind # "bad"
    /\ BytesOfLines(chat.events, DoneIndex(chat.events)) <= chat.pos
    /\ chat.pos <= Len(chat.bytes)

\* C20: once the [DONE] line has been read the loop has ended: the content is
\* that of the data lines before it, whatever follows it in the same read or
\* in the rest of the body, and from then on nothing is read or appended.
C20_DoneTerminates ==
    /\ [](DoneDelivered =>
             /\ chat.pc = "finished" /\ chat.streamDone
             /\ chat.appends = ContentsBefore(chat.events)
             /\ chat.assistantContent = Flatten(chat.appends))
    /\ [][chat.streamDone => chat' = chat]_vars

\* [DONE] came first and a data line followed it in the same read
C20_Witness ==
    /\ chat.streamDone /\ chat.pc = "finished"
    /\ Len(chat.events) = 2 /\ DoneIndex(chat.events) = 1
    /\ chat.events[2].kind = "data" /\ chat.events[2].content # <<>>
    /\ chat.pos = Len(chat.bytes)
    /\ chat.assistantContent = <<>>

\* the body arrived whole, its last newline included
TerminatedBody == chat.bytes = Utf8(BodyText(chat.events))

\* C21: a data line whose payload does not parse is pushed back and appends
\* nothing, and consumption resumes: what is appended is always content of
\* the valid data lines, in order, and when the stream has ended the content
\* of the valid data lines after the unparsable one has been appended too.
C21_BadLineResumes ==
    (chat.pc # "idle" /\ TerminatedBody
        /\ \E i \in 1..Len(chat.events) : chat.events[i].kind = "bad") =>
        /\ \E k \in 0..Len(chat.events) :
               chat.appends = ContentsBefore(SubSeq(chat.events, 1, k))
        /\ chat.pc = "finished" =>
               chat.assistantContent = Flatten(ContentsBefore(chat.events))

\* C30: when the stream ends without [DONE], the content of every data event
\* received has been appended, that of a last data line without its newline
\* included.
C30_NoEventLostAtEnd ==
    (chat.pc = "finished" /\ DoneIndex(chat.events) > Len(chat.events)
        /\ \A i \in 1..Len(chat.events) : chat.events[i].kind # "bad") =>
        chat.assistantContent = Flatten(ContentsBefore(chat.events))

\* C27: when handleRoleChange reports 'Failed to update role' the stored
\* roles of userId are the ones it had before the call; after a completed
\* role change the user holds at least one role row, and after a successful
\* one the role the page shows is the stored one.
C27_FailedChangeKeepsRoles ==
    [][\A s \in Sessions :
          RoleChangeReturns(s) =>
              /\ toast'.title = "Failed to update role" =>
                     RolesOf(user_roles', rolesPage[s].userId) = rolesPage[s].before
              /\ RolesOf(user_roles', rolesPage[s].userId) # {}
              /\ toast'.title = "Role updated" =>
                     rolesPage'[s].userRoles[rolesPage[s].userId]
                         \in RolesOf(user_roles', rolesPage[s].userId)]_vars

\* ============================================== Attendance page: work hours
MsPerMinute == 1000 * 60
MsPerHour == 1000 * 60 * 60

\* a % b of JavaScript: the remainder takes the sign of the dividend
JsRem_none(a, b) == a
JsRem(a, b) == IF a >= 0 THEN a % b ELSE -((-a) % b)

\* `${hours}h ${minutes}m`
WorkHoursText(hours, minutes) == ToString(hours) \o "h " \o ToString(minutes) \o "m"

\* the instants a check-in or a check-out may carry, in milliseconds since the
\* local midnight of the day of the check-in
NineAM == 9 * MsPerHour
HalfPastFive == 17 * MsPerHour + 30 * MsPerMinute
CheckInstants ==
    {NineAM, NineAM + 1, NineAM + MsPerMinute - 1, NineAM + MsPerMinute,
     NineAM + MsPerHour - 1, HalfPastFive, HalfPastFive + MsPerMinute - 1,
     NineAM + HoursPerDay * MsPerHour}

\* the Attendance page holds a row of today: any check_in, and a check_out
\* that is absent or any instant (the store accepts one before the check_in)
InitWorkHours ==
    /\ now = StartNow
    /\ attendance = {}
    /\ nextId = 1
    /\ user_roles = {<<u, "user">> : u \in Users}
    /\ profiles = [u \in Users |-> ""]
    /\ todayAttendance = [s \in Sessions |-> {}]
    /\ isLoading = [s \in Sessions |-> TRUE]
    /\ isSubmitting = [s \in Sessions |-> FALSE]
    /\ notes = [s \in Sessions |-> ""]
    /\ pc = [s \in Sessions |-> "idle"]
    /\ req = [s \in Sessions |-> IdleReq]
    /\ toast = NoToast
    /\ api = NoApi
    /\ rolesPage = [s \in Sessions |-> IdleRolesPage]
    /\ gw = IdleGw
    /\ chat = IdleChat
    /\ \E ci \in CheckInstants \cup {NoTime}, co \in CheckInstants \cup {NoTime} :
           view = [IdleView EXCEPT !.check_in = ci, !.check_out = co]

\* calculateWorkHours(), called when the page renders
calculateWorkHours ==
    /\ view.page = "none"
    /\ IF view.check_in = NoTime \/ view.check_out = NoTime
       THEN view' = [view EXCEPT !.page = "Attendance", !.workHours = NullText]
       ELSE LET diffMs == view.check_out - view.check_in
                hours == diffMs \div MsPerHour
                minutes == JsRem(diffMs, MsPerHour) \div MsPerMinute
            IN  view' = [view EXCEPT !.page = "Attendance",
                                     !.hours = hours, !.minutes = minutes,
                                     !.workHours = WorkHoursText(hours, minutes)]
    /\ UNCHANGED <<now, storeVars, pageVars, api, rolesPage, gw, chat>>

NextWorkHours == calculateWorkHours

SpecWorkHours == InitWorkHours /\ [][NextWorkHours]_vars

\* C22: the work duration is null when check_in or check_out is absent;
\* otherwise, for a check_out not before the check_in, the minutes lie in
\* 0..59, hours*60 + minutes is the whole number of elapsed minutes, and the
\* text is "<hours>h <minutes>m" (09:00:00 to 17:30:00 gives "8h 30m")
C22_WorkDuration ==
    view.page = "Attendance" =>
        /\ (view.check_in = NoTime \/ view.check_out = NoTime) <=> view.workHours = NullText
        /\ (view.check_in # NoTime /\ view.check_out # NoTime
                /\ view.check_out >= view.check_in) =>
               /\ view.minutes \in 0..59
               /\ view.hours * 60 + view.minutes =
                      (view.check_out - view.check_in) \div MsPerMinute
               /\ view.hours = (view.check_out - view.check_in) \div MsPerHour
               /\ view.workHours = WorkHoursText(view.hours, view.minutes)
        /\ (view.check_in = NineAM /\ view.check_out = HalfPastFive) =>
               view.workHours = "8h 30m"

C22_Witness ==
    /\ view.page = "Attendance"
    /\ view.check_in = NineAM + MsPerMinute - 1
    /\ view.check_out = HalfPastFive
    /\ view.workHours = "8h 29m"

\* ================================================ Reports page and Dashboard
\* the most records the store holds for the month, the sample lists aside
MaxRecords == 2

\* the selected month has 31 days and so has the month before it
DaysInMonth == 31
DaysInPrevMonth == 31
\* days of the month on either side of a week boundary
SampleDays == {1, 7, 8, DaysInMonth}

Record(day, status) == [date |-> day, status |-> status]
AllRecords == {Record(d, st) : d \in SampleDays, st \in AttendanceStatus}

RECURSIVE SeqsUpTo(_, _)
SeqsUpTo(S, n) ==
    IF n = 0 THEN {<<>>}
    ELSE LET shorter == SeqsUpTo(S, n - 1)
         IN  shorter \cup {Append(q, x) : q \in {r \in shorter : Len(r) = n - 1}, x \in S}

\* longer months: 7 present, 1 late and 2 absent out of 10; 2 attended out of 3
TenRecords ==
    [i \in 1..10 |-> Record(i, IF i <= 7 THEN "present" ELSE IF i = 8 THEN "late" ELSE "absent")]
ThreeRecords == <<Record(8, "absent"), Record(1, "present"), Record(7, "late")>>
SampleMonths == {TenRecords, ThreeRecords}

\* new Date("yyyy-MM-dd") is midnight UTC of that day and getDate() reads it
\* in the timezone of the browser: west of UTC that is the evening before
getDate(day, west) ==
    IF ~west THEN day ELSE IF day = 1 THEN DaysInPrevMonth ELSE day - 1

\* .order("date", { ascending: true }): rows of one date keep the order in
\* which the store returns them
RECURSIVE InsertByDate(_, _)
InsertByDate(sorted, r) ==
    IF sorted = <<>> THEN <<r>>
    ELSE IF Head(sorted).date <= r.date THEN <<Head(sorted)>> \o InsertByDate(Tail(sorted), r)
    ELSE <<r>> \o sorted
RECURSIVE OrderByDate(_)
OrderByDate(rows) ==
    IF rows = <<>> THEN <<>>
    ELSE InsertByDate(OrderByDate(SubSeq(rows, 1, Len(rows) - 1)), rows[Len(rows)])

\* records.filter((a) => a.status === status).length
CountStatus(records, status) ==
    Cardinality({i \in 1..Len(records) : records[i].status = status})

\* const stats = { present, late, absent, half_day, leave }
StatusCounts(records) == [st \in AttendanceStatus |-> CountStatus(records, st)]

\* x.toFixed(1) of the quotient num/den >= 0: the nearest number of tenths,
\* the larger one of two equally near, written with one decimal
Tenths_floor(num, den) == (10 * num) \div den
Tenths(num, den) == (20 * num + den) \div (2 * den)
TenthsText(t) == ToString(t \div 10) \o "." \o ToString(t % 10)

\* a JavaScript number num/den, or the string produced by toFixed(1)
Number(num, den) == [type |-> "number", num |-> num, den |-> den, text |-> ""]
ToFixed1(num, den) ==
    [type |-> "string", num |-> Tenths(num, den), den |-> 10,
     text |-> TenthsText(Tenths(num, den))]

\* Reports: totalDays > 0 ? (((present + late) / totalDays) * 100).toFixed(1) : 0
ReportsRate(records) ==
    LET stats == StatusCounts(records)
        totalDays == Len(records)
    IN  IF totalDays > 0
        THEN ToFixed1((stats["present"] + stats["late"]) * 100, totalDays)
        ELSE Number(0, 1)

\* Dashboard: totalDays > 0 ? ((presentDays + lateDays) / totalDays) * 100 : 0
DashboardRate(monthData) ==
    LET presentDays == CountStatus(monthData, "present")
        lateDays == CountStatus(monthData, "late")
        totalDays == Len(monthData)
    IN  IF totalDays > 0 THEN Number((presentDays + lateDays) * 100, totalDays)
        ELSE Number(0, 1)

\* `Week ${Math.ceil(new Date(record.date).getDate() / 7)}`
WeekNum(record, west) == "Week " \o ToString((getDate(record.date, west) + 6) \div 7)

\* the position of the entry of a week in the object, 0 when it has none
WeekIndex(weeks, name) ==
    IF \E i \in 1..Len(weeks) : weeks[i].name = name
    THEN CHOOSE i \in 1..Len(weeks) : weeks[i].name = name
    ELSE 0

\* one turn of attendance.forEach: a new week is entered after the others,
\* and only present, late and absent are counted
AddToWeek_reset(weeks, record, west) ==
    LET name == WeekNum(record, west)
        zero == [name |-> name, present |-> 0, late |-> 0, absent |-> 0]
        entered == IF WeekIndex(weeks, name) = 0 THEN Append(weeks, zero)
                   ELSE [weeks EXCEPT ![WeekIndex(weeks, name)] = zero]
        i == WeekIndex(entered, name)
    IN  IF record.status = "present"
        THEN [entered EXCEPT ![i].present = @ + 1]
        ELSE IF record.status = "late"
        THEN [entered EXCEPT ![i].late = @ + 1]
        ELSE IF record.status = "absent"
        THEN [entered EXCEPT ![i].absent = @ + 1]
        ELSE entered
AddToWeek(weeks, record, west) ==
    LET name == WeekNum(record, west)
        entered == IF WeekIndex(weeks, name) = 0
                   THEN Append(weeks, [name |-> name, present |-> 0, late |-> 0, absent |-> 0])
                   ELSE weeks
        i == WeekIndex(entered, name)
    IN  IF record.status = "present"
        THEN [entered EXCEPT ![i].present = @ + 1]
        ELSE IF record.status = "late"
        THEN [entered EXCEPT ![i].late = @ + 1]
        ELSE IF record.status = "absent"
        THEN [entered EXCEPT ![i].absent = @ + 1]
        ELSE entered

\* weeklyData: Object.entries(weeks) lists the weeks in the order of entry
RECURSIVE WeeklyData(_, _)
WeeklyData(records, west) ==
    IF records = <<>> THEN <<>>
    ELSE AddToWeek(WeeklyData(SubSeq(records, 1, Len(records) - 1), west),
                   records[Len(records)], west)

\* the store holds any rows of the month in any order; no page is open
InitReports ==
    /\ now = StartNow
    /\ attendance = {}
    /\ nextId = 1
    /\ user_roles = {<<u, "user">> : u \in Users}
    /\ profiles = [u \in Users |-> ""]
    /\ todayAttendance = [s \in Sessions |-> {}]
    /\ isLoading = [s \in Sessions |-> TRUE]
    /\ isSubmitting = [s \in Sessions |-> FALSE]
    /\ notes = [s \in Sessions |-> ""]
    /\ pc = [s \in Sessions |-> "idle"]
    /\ req = [s \in Sessions |-> IdleReq]
    /\ toast = NoToast
    /\ api = NoApi
    /\ rolesPage = [s \in Sessions |-> IdleRolesPage]
    /\ gw = IdleGw
    /\ chat = IdleChat
    /\ \E rows \in SeqsUpTo(AllRecords, MaxRecords) \cup SampleMonths, west \in BOOLEAN :
           view = [IdleView EXCEPT !.rows = rows, !.west = west]

\* the Reports page is opened: attendance is [] until the fetch returns
Reports_open ==
    /\ view.page = "none"
    /\ view' = [view EXCEPT !.page = "Reports"]
    /\ UNCHANGED <<now, storeVars, pageVars, api, rolesPage, gw, chat>>

\* fetchAttendance(): the rows of the month, ordered by date
Reports_fetchAttendance ==
    /\ view.page = "Reports"
    /\ ~view.fetched
    /\ view' = [view EXCEPT !.attendance = OrderByDate(view.rows),
                            !.fetched = TRUE, !.rendered = FALSE]
    /\ UNCHANGED <<now, storeVars, pageVars, api, rolesPage, gw, chat>>

\* a render of the Reports page: stats, weeklyData, totalDays, attendanceRate
Reports_render ==
    /\ view.page = "Reports"
    /\ ~view.rendered
    /\ view' = [view EXCEPT !.rendered = TRUE,
                            !.stats = StatusCounts(view.attendance),
                            !.weeklyData = WeeklyData(view.attendance, view.west),
                            !.totalDays = Len(view.attendance),
                            !.attendanceRate = ReportsRate(view.attendance)]
    /\ UNCHANGED <<now, storeVars, pageVars, api, rolesPage, gw, chat>>

\* fetchDashboardData(): the rows of the month as the store returns them, and
\* setStats({ totalDays, presentDays, lateDays, absentDays, attendanceRate })
Dashboard_fetchDashboardData ==
    /\ view.page = "none"
    /\ view' = [view EXCEPT !.page = "Dashboard", !.fetched = TRUE,
                            !.attendance = view.rows,
                            !.stats = [st \in AttendanceStatus |->
                                          IF st \in {"present", "late", "absent"}
                                          THEN CountStatus(view.rows, st) ELSE 0],
                            !.totalDays = Len(view.rows),
                            !.attendanceRate = DashboardRate(view.rows)]
    /\ UNCHANGED <<now, storeVars, pageVars, api, rolesPage, gw, chat>>

\* a render of the Dashboard with stats set: {stats?.attendanceRate.toFixed(1) || 0}%
Dashboard_render ==
    /\ view.page = "Dashboard"
    /\ ~view.rendered
    /\ view' = [view EXCEPT !.rendered = TRUE,
                            !.shownRate = ToFixed1(view.attendanceRate.num,
                                                   view.attendanceRate.den).text]
    /\ UNCHANGED <<now, storeVars, pageVars, api, rolesPage, gw, chat>>

NextReports ==
    \/ Reports_open
    \/ Reports_fetchAttendance
    \/ Reports_render
    \/ Dashboard_fetchDashboardData
    \/ Dashboard_render

SpecReports == InitReports /\ [][NextReports]_vars

\* the records the page computes from, with a given status / in a given week
Attended(records) == CountStatus(records, "present") + CountStatus(records, "late")
InWeek(records, w, status) ==
    Cardinality({i \in 1..Len(records) :
                    (records[i].date + 6) \div 7 = w /\ records[i].status = status})
ReportsRendered == view.page = "Reports" /\ view.rendered
DashboardFetched == view.page = "Dashboard" /\ view.fetched

C24_WeeklyBuckets ==
    ReportsRendered =>
        \A w \in 1..5 :
            LET name == "Week " \o ToString(w)
                i == WeekIndex(view.weeklyData, name)
                counted == InWeek(view.attendance, w, "present")
                               + InWeek(view.attendance, w, "late")
                               + InWeek(view.attendance, w, "absent")
                held == counted + InWeek(view.attendance, w, "half_day")
                                + InWeek(view.attendance, w, "leave")
            IN  /\ i = 0 <=> held = 0
                /\ i # 0 =>
                       /\ view.weeklyData[i].present = InWeek(view.attendance, w, "present")
                       /\ view.weeklyData[i].late = InWeek(view.attendance, w, "late")
                       /\ view.weeklyData[i].absent = InWeek(view.attendance, w, "absent")

\* every ordering of a list
Orderings(q) ==
    {[i \in 1..Len(q) |-> q[f[i]]] :
        f \in {g \in [1..Len(q) -> 1..Len(q)] : \A i, j \in 1..Len(q) : g[i] = g[j] => i = j}}
IsOrderedByDate(q) == \A i \in 1..(Len(q) - 1) : q[i].date <= q[i + 1].date
Entries(weeks) == {weeks[i] : i \in 1..Len(weeks)}

SignedUp == DOMAIN profiles

\* some users have signed up; the admin role of one of them may have been
\* granted outside the application
InitRolesRLS ==
    /\ now = StartNow
    /\ attendance = {}
    /\ nextId = 1
    /\ \E members \in SUBSET Users, admins \in AdminSets :
           /\ admins \subseteq members
           /\ profiles = [u \in members |-> ""]
           /\ user_roles = {<<u, "user">> : u \in members} \cup {<<u, "admin">> : u \in admins}
    /\ todayAttendance = [s \in Sessions |-> {}]
    /\ isLoading = [s \in Sessions |-> TRUE]
    /\ isSubmitting = [s \in Sessions |-> FALSE]
    /\ notes = [s \in Sessions |-> ""]
    /\ pc = [s \in Sessions |-> "idle"]
    /\ req = [s \in Sessions |-> IdleReq]
    /\ toast = NoToast
    /\ api = NoApi
    /\ rolesPage = [s \in Sessions |-> IdleRolesPage]
    /\ gw = IdleGw
    /\ chat = IdleChat
    /\ view = IdleView

\* a row is inserted into auth.users and the trigger on_auth_user_created
\* runs handle_new_user(): a profile and the role 'user'
signUp(u) ==
    /\ u \notin SignedUp
    /\ api' = ApiCall("signup", "auth.users", 0, u, TRUE, {})
    /\ profiles' = (u :> "") @@ profiles
    /\ user_roles' = user_roles \cup {<<u, "user">>}
    /\ UNCHANGED <<now, attendance, nextId, pageVars>>
    /\ UNCHANGED extVars

\* from("user_roles").insert({user_id: u, role}) by the signed-in user c
ApiInsertRole(c, u, role) ==
    /\ c \in SignedUp
    /\ LET row == <<u, role>>
           ok == InsertRoleError(c, user_roles, row) = "" /\ u \in SignedUp
       IN  /\ api' = ApiCall("insert", "user_roles", c, u, ok, {})
           /\ user_roles' = IF ok THEN user_roles \cup {row} ELSE user_roles
    /\ UNCHANGED <<now, attendance, nextId, profiles, pageVars>>
    /\ UNCHANGED extVars

\* from("user_roles").update({user_id: u2, role: role2}).eq("user_id", u)
\* .eq("role", role): USING selects the rows, and is the check of the new ones
ApiUpdateRole(c, u, role, u2, role2) ==
    /\ c \in SignedUp
    /\ LET targets == {r \in user_roles : r = <<u, role>> /\ UserRolesManageUsing(c)}
           updated == {<<u2, role2>> : r \in targets}
           ok == /\ targets # {}
                 /\ UserRolesManageUsing(c)
                 /\ u2 \in SignedUp
                 /\ updated \cap (user_roles \ targets) = {}
       IN  /\ api' = ApiCall("update", "user_roles", c, u2, ok, {})
           /\ user_roles' = IF ok THEN (user_roles \ targets) \cup updated ELSE user_roles
    /\ UNCHANGED <<now, attendance, nextId, profiles, pageVars>>
    /\ UNCHANGED extVars

\* from("user_roles").delete().eq("user_id", u)
ApiDeleteRole(c, u) ==
    /\ c \in SignedUp
    /\ api' = ApiCall("delete", "user_roles", c, u,
                      DeleteRoles(c, user_roles, u) # user_roles, {})
    /\ user_roles' = DeleteRoles(c, user_roles, u)
    /\ UNCHANGED <<now, attendance, nextId, profiles, pageVars>>
    /\ UNCHANGED extVars

NextRolesRLS ==
    \/ \E u \in Users : signUp(u)
    \/ \E c \in Users, u \in Users, role \in AppRoles : ApiInsertRole(c, u, role)
    \/ \E c \in Users, u \in Users, role \in AppRoles, u2 \in Users, role2 \in AppRoles :
           ApiUpdateRole(c, u, role, u2, role2)
    \/ \E c \in Users, u \in Users : ApiDeleteRole(c, u)

SpecRolesRLS == InitRolesRLS /\ [][NextRolesRLS]_vars

\* C26: a caller who does not hold the admin role changes no role row by an
\* insert, an update or a delete; a user comes to hold the admin role only by
\* a call on user_roles made by a caller who holds the admin role at that
\* moment; and a signup adds the role 'user' of the new user and nothing else
C26_NoPrivilegeEscalation ==
    [][ LET a == api' IN
        /\ (a.table = "user_roles" /\ ~has_role(a.caller, "admin")) =>
               (~a.ok /\ user_roles' = user_roles)
        /\ \A u \in Users :
               (~has_role(u, "admin") /\ <<u, "admin">> \in user_roles') =>
                   (a.table = "user_roles" /\ a.ok /\ has_role(a.caller, "admin"))
        /\ a.op = "signup" => user_roles' = user_roles \cup {<<a.owner, "user">>}
      ]_vars

\* a user without the admin role tried to grant it to themselves and was
\* refused, while another user holds it
C26_Witness ==
    /\ api.table = "user_roles"
    /\ api.op = "insert"
    /\ api.caller = api.owner
    /\ ~api.admin
    /\ ~api.ok
    /\ \E u \in Users : has_role(u, "admin")
    /\ ~has_role(api.caller, "admin")

\* C29: if every await of the network returns, a sendMessage that has set
\* isLoading sets it back on every outcome (429, 402, another response that is
\* not ok, a thrown fetch or read, [DONE], the end of the stream); isLoading is
\* set exactly while a request awaits its end, there is never more than one,
\* and a sendMessage while isLoading is set starts none
C29_SendTerminates ==
    /\ chat.isLoading ~> ~chat.isLoading
    /\ [](chat.inFlight = IF chat.isLoading THEN 1 ELSE 0)
    /\ [](chat.isLoading <=> chat.pc \in {"fetch", "read"})
    /\ [][chat.isLoading => chat'.inFlight <= chat.inFlight]_vars

\* a stream ended without [DONE] behind a line that never parsed, and the
\* send has ended with it
C29_Witness ==
    /\ chat.pc = "finished"
    /\ ~chat.isLoading
    /\ ~chat.streamDone
    /\ chat.textBuffer # <<>>
    /\ chat.inFlight = 0

\* ============================================ from the chat page to the function
\* the user signed in on the browser of the chat page
ChatUser == SessionUser(1)

\* the request of a pending sendMessage reaches the function: a POST with the
\* Authorization header the page has set and the messages as its JSON body
sendMessage_request(envSet, keySet) ==
    /\ chat.pc = "fetch"
    /\ gw.pc = "idle"
    /\ gw' = Invoke("POST", TRUE, chat.bearer, "messages", envSet, keySet)
    /\ chat' = [chat EXCEPT !.pc = "await"]
    /\ toast' = NoToast
    /\ UNCHANGED <<now, storeVars, todayAttendance, isLoading, isSubmitting, notes,
                   pc, req, api, rolesPage, view>>

\* the response of the function reaches the page
sendMessage_answer(events) ==
    /\ chat.pc = "await"
    /\ gw.pc = "done"
    /\ IF gw.response.status \in {200, 201}
       THEN /\ chat' = StreamStart(chat, events, TRUE)
            /\ toast' = NoToast
       ELSE /\ events = <<>>
            /\ chat' = FailureChat(chat, gw.response.status)
            /\ toast' = FailureToast(gw.response.status)
    /\ UNCHANGED <<now, storeVars, todayAttendance, isLoading, isSubmitting, notes,
                   pc, req, api, rolesPage, gw, view>>

\* the function is called by the chat page or, with any credential, by
\* another client
NextChatAuth ==
    \/ \E messageText \in MessageTexts : sendMessage(messageText)
    \/ \E envSet \in BOOLEAN, keySet \in BOOLEAN : sendMessage_request(envSet, keySet)
    \/ \E events \in Bodies : sendMessage_answer(events)
    \/ \E method \in Methods, hasAuth \in BOOLEAN, token \in Tokens,
          body \in BodyKinds, envSet \in BOOLEAN, keySet \in BOOLEAN :
           serve(method, hasAuth, token, body, envSet, keySet)
    \/ serve_json
    \/ \E authError \in BOOLEAN : serve_getUser(authError)
    \/ \E queryError \in BOOLEAN : serve_attendance(queryError)
    \/ \E noProfile \in BOOLEAN : serve_profile(noProfile)
    \/ \E status \in UpstreamStatuses \cup {FetchThrows}, body \in UpstreamBodies :
           serve_fetch(status, body)

SpecChatAuth == InitGateway /\ [][NextChatAuth]_vars

\* C28: the bearer credential of a chat request is one the identity lookup
\* resolves to the user signed in on the page, so a request of the page that
\* the function has looked up is authenticated as that user, is not answered
\* 401, and has its context built from that user's records
C28_ChatAuthenticated ==
    /\ chat.pc = "await" => (gw.hasAuth /\ gw.token = ChatUser)
    /\ (chat.pc = "await" /\ gw.authCalls > 0 /\ gw.pc # "getUser") =>
           /\ gw.user \in {0, ChatUser}
           /\ gw.user = 0 <=> gw.response.status = 401
    /\ (chat.pc = "await" /\ gw.pc \in {"fetch", "done"} /\ GwAuthenticated
            /\ ~gw.attendanceNull) =>
           gw.attendance = AttendanceQuery(attendance, ChatUser)

====
